---------------------------- MODULE Spec2Model ----------------------------
(***************************************************************************)
(* A model of the pixi-essentials Transformer (packages/transformer):      *)
(* the oriented group bounds, the rotate / scale / skew / translate        *)
(* gestures, commitGroup, draw and snapAngle.                              *)
(*                                                                         *)
(* Numbers.  Coordinates and matrix entries are exact elements of the      *)
(* field Q(sqrt 2), written <<p, q, d>> for (p + q*sqrt(2)) / d with d > 0 *)
(* and gcd(p, q, d) = 1.  In this field the sines, cosines and tangents of *)
(* every multiple of 45 degrees are exact, so the matrices the gestures    *)
(* build are computed, not approximated.  The rounding of IEEE doubles is  *)
(* not modelled.  The doubles that are not finite have d = 0: <<1, 0, 0>>  *)
(* is Infinity, <<-1, 0, 0>> is -Infinity and <<0, 0, 0>> is NaN.          *)
(*                                                                         *)
(* Angles are integers in degrees (2*PI is 360).                           *)
(***************************************************************************)
EXTENDS Integers, Sequences, FiniteSets, TLC

----------------------------------------------------------------------------
(* Arithmetic in Q(sqrt 2) *)

\* Body applied to the value of v: v is evaluated once, before Body is
ByValue(v, Body(_)) == CHOOSE r \in {Body(w) : w \in {v}} : TRUE

Abs(n) == IF n < 0 THEN -n ELSE n

RECURSIVE Gcd(_, _)
Gcd(m, n) == IF n = 0 THEN m ELSE Gcd(n, m % n)

Norm(p, q, d) ==
    LET g == Gcd(Gcd(Abs(p), Abs(q)), Abs(d))
        s == IF d < 0 THEN -1 ELSE 1
    IN  IF g = 0 THEN <<0, 0, 0>>
        ELSE <<(s * p) \div g, (s * q) \div g, (s * d) \div g>>

Num(n) == <<n, 0, 1>>
Zero == Num(0)
One == Num(1)

NegInfinity == <<-1, 0, 0>>
NaN == <<0, 0, 0>>

Add(x, y) == Norm(x[1] * y[3] + y[1] * x[3], x[2] * y[3] + y[2] * x[3], x[3] * y[3])
Neg(x) == <<-x[1], -x[2], x[3]>>
Sub(x, y) == Add(x, Neg(y))
Mul(x, y) == Norm(x[1] * y[1] + 2 * x[2] * y[2], x[1] * y[2] + x[2] * y[1], x[3] * y[3])
\* 1 / (p + q*sqrt2)/d  =  d * (p - q*sqrt2) / (p*p - 2*q*q)
Inv(x) == Norm(x[3] * x[1], -(x[3] * x[2]), x[1] * x[1] - 2 * x[2] * x[2])
Div(x, y) == Mul(x, Inv(y))
Half(x) == Div(x, Num(2))

\* the sign of p + q*sqrt2
Sign(x) ==
    LET p == x[1]
        q == x[2]
        sq == p * p - 2 * q * q
    IN  IF p >= 0 /\ q >= 0 THEN (IF p = 0 /\ q = 0 THEN 0 ELSE 1)
        ELSE IF p <= 0 /\ q <= 0 THEN -1
        ELSE IF p > 0 THEN (IF sq > 0 THEN 1 ELSE -1)
        ELSE (IF sq > 0 THEN -1 ELSE 1)

Lt(x, y) == Sign(Sub(x, y)) < 0
Le(x, y) == Sign(Sub(x, y)) <= 0
MinN(x, y) == IF Lt(y, x) THEN y ELSE x
MaxN(x, y) == IF Lt(x, y) THEN y ELSE x


----------------------------------------------------------------------------
(* Angles and trigonometry (Math.cos, Math.sin, Math.tan, Math.atan2, %) *)

\* Math.PI * 2, in degrees
TWO_PI == 360

\* JavaScript's %: the remainder takes the sign of the dividend
Rem(a, n) == IF a >= 0 THEN a % n ELSE -((-a) % n)

SQRT1_2 == <<0, 1, 2>>

\* the angles whose sine and cosine the number field holds
IsGridAngle(a) == a % 45 = 0

Cos(a) ==
    LET k == (a % TWO_PI) \div 45
    IN  CASE a % 45 = 0 /\ k = 0 -> One
          [] a % 45 = 0 /\ k \in {1, 7} -> SQRT1_2
          [] a % 45 = 0 /\ k \in {2, 6} -> Zero
          [] a % 45 = 0 /\ k \in {3, 5} -> Neg(SQRT1_2)
          [] a % 45 = 0 /\ k = 4 -> Neg(One)

Sin(a) == Cos(a - 90)

\* Math.tan is finite in the model away from the odd multiples of 90 degrees
TanFinite(a) == IsGridAngle(a) /\ a % 180 # 90

Tan(a) == Div(Sin(a), Cos(a))

\* the directions whose angle is a multiple of 45 degrees
OnGrid(y, x) ==
    \/ Sign(y) = 0
    \/ Sign(x) = 0
    \/ Sub(x, y) = Zero
    \/ Add(x, y) = Zero

\* Math.atan2(y, x) in degrees, in (-180, 180]
Atan2(y, x) ==
    LET sy == Sign(y)
        sx == Sign(x)
    IN  CASE sy = 0 /\ sx >= 0 -> 0
          [] sy = 0 /\ sx < 0 -> 180
          [] sx = 0 /\ sy > 0 -> 90
          [] sx = 0 /\ sy < 0 -> -90
          [] sx > 0 /\ sy > 0 /\ Sub(x, y) = Zero -> 45
          [] sx < 0 /\ sy > 0 /\ Add(x, y) = Zero -> 135
          [] sx > 0 /\ sy < 0 /\ Add(x, y) = Zero -> -45
          [] sx < 0 /\ sy < 0 /\ Sub(x, y) = Zero -> -135

----------------------------------------------------------------------------
(* Point and Matrix of @pixi/math, as the Transformer uses them *)

Point(x, y) == ByValue(<<x, y>>, LAMBDA v : [x |-> v[1], y |-> v[2]])

identity == [a |-> One, b |-> Zero, c |-> Zero, d |-> One, tx |-> Zero, ty |-> Zero]

translate(matrix, x, y) ==
    ByValue(<<matrix, x, y>>, LAMBDA v :
        [v[1] EXCEPT !.tx = Add(v[1].tx, v[2]), !.ty = Add(v[1].ty, v[3])])

scale(matrix, x, y) ==
    ByValue(<<matrix, x, y>>, LAMBDA v :
        LET m == v[1]
        IN  [a |-> Mul(m.a, v[2]), b |-> Mul(m.b, v[3]), c |-> Mul(m.c, v[2]),
             d |-> Mul(m.d, v[3]), tx |-> Mul(m.tx, v[2]), ty |-> Mul(m.ty, v[3])])

rotate(matrix, angle) ==
    ByValue(<<matrix, Cos(angle), Sin(angle)>>, LAMBDA v :
        LET m == v[1]
            cos == v[2]
            sin == v[3]
        IN  [a |-> Sub(Mul(m.a, cos), Mul(m.b, sin)),
             b |-> Add(Mul(m.a, sin), Mul(m.b, cos)),
             c |-> Sub(Mul(m.c, cos), Mul(m.d, sin)),
             d |-> Add(Mul(m.c, sin), Mul(m.d, cos)),
             tx |-> Sub(Mul(m.tx, cos), Mul(m.ty, sin)),
             ty |-> Add(Mul(m.tx, sin), Mul(m.ty, cos))])

\* this.prepend(other): this becomes other * this
prepend(matrix, other) ==
    ByValue(<<matrix, other>>, LAMBDA v :
        LET m == v[1]
            o == v[2]
        IN  [a |-> Add(Mul(m.a, o.a), Mul(m.b, o.c)),
             b |-> Add(Mul(m.a, o.b), Mul(m.b, o.d)),
             c |-> Add(Mul(m.c, o.a), Mul(m.d, o.c)),
             d |-> Add(Mul(m.c, o.b), Mul(m.d, o.d)),
             tx |-> Add(Add(Mul(m.tx, o.a), Mul(m.ty, o.c)), o.tx),
             ty |-> Add(Add(Mul(m.tx, o.b), Mul(m.ty, o.d)), o.ty)])

apply(matrix, pos) ==
    ByValue(<<matrix, pos>>, LAMBDA v :
        LET m == v[1]
            p == v[2]
        IN  Point(Add(Add(Mul(m.a, p.x), Mul(m.c, p.y)), m.tx),
                  Add(Add(Mul(m.b, p.x), Mul(m.d, p.y)), m.ty)))

applyInverse(matrix, pos) ==
    ByValue(<<matrix, pos>>, LAMBDA v :
        LET m == v[1]
            p == v[2]
        IN  ByValue(Inv(Sub(Mul(m.a, m.d), Mul(m.c, m.b))), LAMBDA id :
                Point(Add(Sub(Mul(Mul(m.d, id), p.x), Mul(Mul(m.c, id), p.y)),
                          Mul(Sub(Mul(m.ty, m.c), Mul(m.tx, m.d)), id)),
                      Add(Sub(Mul(Mul(m.a, id), p.y), Mul(Mul(m.b, id), p.x)),
                          Mul(Sub(Mul(m.tx, m.b), Mul(m.ty, m.a)), id)))))

\* utils/skewTransform: a shear matrix with c = tan(angle)
createHorizontalSkew(angle) == [identity EXCEPT !.c = Tan(angle)]

\* utils/skewTransform: a shear matrix with b = tan(angle)
createVerticalSkew(angle) == [identity EXCEPT !.b = Tan(angle)]

\* utils/multiplyTransform: the member's world transform becomes delta * worldTransform
multiplyTransform(displayObject, delta) ==
    [displayObject EXCEPT !.worldTransform = prepend(displayObject.worldTransform, delta)]

\* utils/decomposeTransform: the rotation is the angle of the image of the x axis
decomposeRotation(m) == Atan2(m.b, m.a)

decomposable(m) == OnGrid(m.b, m.a)

----------------------------------------------------------------------------
(* OrientedBounds of @pixi-essentials/bounds: innerBounds and rotation are the  *)
(* stored fields; center and the four corners are derived from them on read.    *)

OrientedBounds(x, y, width, height, rotation) ==
    [x |-> x, y |-> y, width |-> width, height |-> height, rotation |-> rotation]

center(bounds) ==
    Point(Add(bounds.x, Half(bounds.width)), Add(bounds.y, Half(bounds.height)))

\* the orientation matrix: a rotation about the center of innerBounds
orientation(bounds) ==
    ByValue(center(bounds), LAMBDA c :
        translate(rotate(translate(identity, Neg(c.x), Neg(c.y)), bounds.rotation), c.x, c.y))

topLeft(bounds) == apply(orientation(bounds), Point(bounds.x, bounds.y))
topRight(bounds) == apply(orientation(bounds), Point(Add(bounds.x, bounds.width), bounds.y))
bottomLeft(bounds) == apply(orientation(bounds), Point(bounds.x, Add(bounds.y, bounds.height)))
bottomRight(bounds) ==
    apply(orientation(bounds), Point(Add(bounds.x, bounds.width), Add(bounds.y, bounds.height)))

\* bounds.center.copyFrom(p): innerBounds is moved so that its center is p
setCenter(bounds, p) ==
    [bounds EXCEPT !.x = Sub(p.x, Half(bounds.width)), !.y = Sub(p.y, Half(bounds.height))]

\* innerBounds.pad(n)
pad(bounds, n) ==
    [bounds EXCEPT !.x = Sub(bounds.x, Num(n)), !.y = Sub(bounds.y, Num(n)),
                   !.width = Add(bounds.width, Num(2 * n)),
                   !.height = Add(bounds.height, Num(2 * n))]

----------------------------------------------------------------------------
(* Constants of Transformer.ts *)

SCALE_HANDLES ==
    <<"topLeft", "topCenter", "topRight", "middleLeft", "middleCenter", "middleRight",
      "bottomLeft", "bottomCenter", "bottomRight">>

SCALE_COMPONENTS ==
    [topLeft |-> [x |-> -1, y |-> -1],
     topCenter |-> [x |-> 0, y |-> -1],
     topRight |-> [x |-> 1, y |-> -1],
     middleLeft |-> [x |-> -1, y |-> 0],
     middleCenter |-> [x |-> 0, y |-> 0],
     middleRight |-> [x |-> 1, y |-> 0],
     bottomLeft |-> [x |-> -1, y |-> 1],
     bottomCenter |-> [x |-> 0, y |-> 1],
     bottomRight |-> [x |-> 1, y |-> 1]]

HANDLES == SCALE_HANDLES \o <<"rotator", "skewHorizontal", "skewVertical">>

HandleSet == {HANDLES[i] : i \in 1..Len(HANDLES)}

SKEW_HANDLES == {"skewHorizontal", "skewVertical"}

DEFAULT_ROTATION_SNAPS == <<45, 90, 135, 180, -45, -90, -135, -180>>

DEFAULT_ROTATION_SNAP_TOLERANCE == 2

DEFAULT_SKEW_SNAPS == <<45, -45>>

DEFAULT_SKEW_SNAP_TOLERANCE == 2

\* options.skewRadius || 64
DEFAULT_SKEW_RADIUS == 64

\* groupBounds.innerBounds.pad(32) in drawHandles
ROTATOR_PADDING == 32

----------------------------------------------------------------------------
(* The state of one Transformer *)

VARIABLES
    group,                  \* the display objects: world transform and local bounds
    groupBounds,            \* this.groupBounds: innerBounds and rotation
    handles,                \* this.handles[h].position
    _skewX,
    _skewY,
    centeredScaling,
    transientGroupTilt,
    rotationSnaps,
    rotationSnapTolerance,
    skewSnaps,
    skewSnapTolerance,
    skewRadius,
    _rotateEnabled,
    _scaleEnabled,
    _skewEnabled,
    translateEnabled,
    _enabledHandles,        \* undefined, or the list of handles enabled by hand
    visible,                \* this.handles[h].visible
    handle_pointerDown,     \* this.handles[h]._pointerDown
    handle_pointerDragging, \* this.handles[h]._pointerDragging
    _pointerDown,           \* the transformer's own pointer state: a drag on its body
    _pointerDragging,
    _pointerPosition,
    last,                   \* history: the operation that produced this state
    gestures,               \* history: how many matrices have been applied
    requested,              \* history: the values last asked of the constructor and setters
    event,                  \* history: the last pointer event on a handle and what it invoked
    drag                    \* history: the last pointer event on the body and what it moved

geometry == <<group, groupBounds, handles, _skewX, _skewY>>

options ==
    <<centeredScaling, transientGroupTilt, rotationSnaps, rotationSnapTolerance,
      skewSnaps, skewSnapTolerance, skewRadius, _rotateEnabled, _scaleEnabled, _skewEnabled,
      translateEnabled>>

\* the pointer state of the transformer's body, and its history
pointerState == <<_pointerDown, _pointerDragging, _pointerPosition, drag>>

\* the visibility and the pointer state of the handles, and their histories
interaction ==
    <<_enabledHandles, visible, handle_pointerDown, handle_pointerDragging, requested, event,
      pointerState>>

vars == <<geometry, options, last, gestures, interaction>>

\* a value that was never assigned; a value v that was is held as <<v>>
undefined == <<>>

Some(v) == <<v>>

----------------------------------------------------------------------------
(* snapAngle *)

\* the loop of snapAngle from index i on: the first snap within the tolerance
RECURSIVE snapScan(_, _, _, _)
snapScan(angle, snapTolerance, snaps, i) ==
    IF i > Len(snaps) THEN angle
    ELSE IF Abs(angle - snaps[i]) <= snapTolerance THEN snaps[i]
    ELSE snapScan(angle, snapTolerance, snaps, i + 1)

\* the entry of snaps nearest to angle, from index i on, best being the nearest so far
RECURSIVE nearestSnap(_, _, _, _)
nearestSnap(angle, snaps, i, best) ==
    IF i > Len(snaps) THEN best
    ELSE nearestSnap(angle, snaps, i + 1,
                     IF Abs(angle - snaps[i]) < Abs(angle - best) THEN snaps[i] ELSE best)

\* snapAngle taking the nearest snap within the tolerance instead of the first
snapAngleNearest(angle, snapTolerance, snaps) ==
    IF Len(snaps) <= 1 \/ snapTolerance = 0 THEN Rem(angle, TWO_PI)
    ELSE ByValue(nearestSnap(Rem(angle, TWO_PI), snaps, 2, snaps[1]), LAMBDA near :
             IF Abs(Rem(angle, TWO_PI) - near) <= snapTolerance THEN near
             ELSE Rem(angle, TWO_PI))

\* snapAngle taking the first snap within twice the tolerance
snapAngleWide(angle, snapTolerance, snaps) ==
    IF Len(snaps) = 1 \/ snapTolerance = 0 THEN Rem(angle, TWO_PI)
    ELSE snapScan(Rem(angle, TWO_PI), 2 * snapTolerance, snaps, 1)

snapAngle(angle, snapTolerance, snaps) ==
    LET normalized == Rem(angle, TWO_PI)
    IN  IF Len(snaps) = 1 \/ snapTolerance = 0 THEN normalized
        ELSE snapScan(normalized, snapTolerance, snaps, 1)

----------------------------------------------------------------------------
(* The oriented bounds of one display object and of a group *)

DisplayObject(worldTransform, localBounds) ==
    [worldTransform |-> worldTransform, localBounds |-> localBounds]

calculateTransformedCorners(displayObject) ==
    LET lb == displayObject.localBounds
        t == displayObject.worldTransform
    IN  <<apply(t, Point(lb.x, lb.y)),
          apply(t, Point(Add(lb.x, lb.width), lb.y)),
          apply(t, Point(Add(lb.x, lb.width), Add(lb.y, lb.height))),
          apply(t, Point(lb.x, Add(lb.y, lb.height)))>>

RECURSIVE minX(_, _)
minX(points, i) ==
    IF i = Len(points) THEN points[i].x ELSE MinN(points[i].x, minX(points, i + 1))

RECURSIVE minY(_, _)
minY(points, i) ==
    IF i = Len(points) THEN points[i].y ELSE MinN(points[i].y, minY(points, i + 1))

RECURSIVE maxX(_, _)
maxX(points, i) ==
    IF i = Len(points) THEN points[i].x ELSE MaxN(points[i].x, maxX(points, i + 1))

RECURSIVE maxY(_, _)
maxY(points, i) ==
    IF i = Len(points) THEN points[i].y ELSE MaxN(points[i].y, maxY(points, i + 1))

\* matrix.apply on every point from index i on
RECURSIVE applyEach(_, _, _)
applyEach(matrix, points, i) ==
    IF i > Len(points) THEN <<>>
    ELSE <<apply(matrix, points[i])>> \o applyEach(matrix, points, i + 1)

\* the axis-aligned box of the points, with the rotation it is to be read in
boxOf(unrotated, rotation) ==
    ByValue(<<minX(unrotated, 1), minY(unrotated, 1)>>, LAMBDA o :
        OrientedBounds(o[1], o[2], Sub(maxX(unrotated, 1), o[1]),
                       Sub(maxY(unrotated, 1), o[2]), rotation))

calculateOrientedBounds(displayObject) ==
    ByValue(<<decomposeRotation(displayObject.worldTransform),
              calculateTransformedCorners(displayObject), Num(4)>>, LAMBDA v :
        LET angle == v[1]
            corners == v[2]
            four == v[3]
        IN  ByValue(<<Div(Add(Add(corners[1].x, corners[2].x),
                              Add(corners[3].x, corners[4].x)), four),
                      Div(Add(Add(corners[1].y, corners[2].y),
                              Add(corners[3].y, corners[4].y)), four)>>, LAMBDA c :
            ByValue(translate(rotate(translate(identity, Neg(c[1]), Neg(c[2])), -angle),
                              c[1], c[2]), LAMBDA matrix :
            ByValue(applyEach(matrix, corners, 1), LAMBDA unrotated :
                boxOf(unrotated, angle)))))

RECURSIVE frameVertices(_, _)
frameVertices(grp, i) ==
    IF i > Len(grp) THEN <<>>
    ELSE calculateTransformedCorners(grp[i]) \o frameVertices(grp, i + 1)

\* calculateGroupOrientedBounds without the center solved back into the world frame
calculateGroupOrientedBoundsUncentred(grp, rotation) ==
    IF Len(grp) = 0
    THEN [x |-> <<0, 0, 0>>, y |-> <<0, 0, 0>>, width |-> <<-1, 0, 0>>,
          height |-> <<-1, 0, 0>>, rotation |-> rotation]
    ELSE
    ByValue(<<frameVertices(grp, 1), rotate(identity, -rotation)>>, LAMBDA v :
        ByValue(applyEach(v[2], v[1], 1), LAMBDA unrotated : boxOf(unrotated, rotation)))

\* With no member the loop over the frames does not run: minX and minY stay
\* Number.MAX_VALUE, maxX and maxY stay -Number.MAX_VALUE, and the width and the height,
\* -Number.MAX_VALUE - Number.MAX_VALUE, overflow to -Infinity.  The center read back is
\* MAX_VALUE + (-Infinity) / 2 = -Infinity, its image under the rotation matrix is NaN
\* (0 * Infinity), and copying it into the center leaves x and y NaN.
calculateGroupOrientedBounds(grp, rotation) ==
    IF Len(grp) = 0
    THEN OrientedBounds(NaN, NaN, NegInfinity, NegInfinity, rotation)
    ELSE
    ByValue(<<frameVertices(grp, 1), rotate(identity, -rotation)>>, LAMBDA v :
        LET frames == v[1]
            matrix == v[2]
        IN  ByValue(applyEach(matrix, frames, 1), LAMBDA unrotated :
            ByValue(boxOf(unrotated, rotation), LAMBDA inner :
                setCenter(inner, applyInverse(matrix, center(inner))))))

updateGroupBounds(grp, rotation) == calculateGroupOrientedBounds(grp, rotation)

prependTransform(grp, delta) == [i \in 1..Len(grp) |-> multiplyTransform(grp[i], delta)]

----------------------------------------------------------------------------
(* What each gesture computes from the live bounds and the pointer *)

\* rotateGroup measuring the angle from the pointer to the handle
rotateAnglesReversed(bounds, origin, destination, snapTolerance, snaps) ==
    ByValue(center(bounds), LAMBDA rOrigin :
    ByValue(<<Atan2(Sub(destination.y, rOrigin.y), Sub(destination.x, rOrigin.x)),
              Atan2(Sub(origin.y, rOrigin.y), Sub(origin.x, rOrigin.x))>>,
            LAMBDA v :
        ByValue(snapAngle(bounds.rotation + (v[2] - v[1]), snapTolerance, snaps),
                LAMBDA newRotation :
            [orgAngle |-> v[1], dstAngle |-> v[2], newRotation |-> newRotation,
             deltaAngle |-> newRotation - bounds.rotation])))

\* rotateGroup keeping the delta it measured instead of recomputing it after the snap
rotateAnglesDiffThenSnap(bounds, origin, destination, snapTolerance, snaps) ==
    ByValue(center(bounds), LAMBDA rOrigin :
    ByValue(<<Atan2(Sub(origin.y, rOrigin.y), Sub(origin.x, rOrigin.x)),
              Atan2(Sub(destination.y, rOrigin.y), Sub(destination.x, rOrigin.x))>>,
            LAMBDA v :
        [orgAngle |-> v[1], dstAngle |-> v[2],
         newRotation |-> snapAngle(bounds.rotation + (v[2] - v[1]), snapTolerance, snaps),
         deltaAngle |-> v[2] - v[1]]))

\* rotateGroup: the angles, snapped, and the delta recomputed from the snapped rotation
rotateAngles(bounds, origin, destination, snapTolerance, snaps) ==
    ByValue(center(bounds), LAMBDA rOrigin :
    ByValue(<<Atan2(Sub(origin.y, rOrigin.y), Sub(origin.x, rOrigin.x)),
              Atan2(Sub(destination.y, rOrigin.y), Sub(destination.x, rOrigin.x))>>,
            LAMBDA v :
        LET orgAngle == v[1]
            dstAngle == v[2]
        IN  ByValue(snapAngle(bounds.rotation + (dstAngle - orgAngle), snapTolerance, snaps),
                    LAMBDA newRotation :
                [orgAngle |-> orgAngle, dstAngle |-> dstAngle, newRotation |-> newRotation,
                 deltaAngle |-> newRotation - bounds.rotation])))

\* rotateGroup: translate(-rOrigin), rotate(deltaAngle), translate(rOrigin)
rotationMatrix(rOrigin, deltaAngle) ==
    translate(rotate(translate(identity, Neg(rOrigin.x), Neg(rOrigin.y)), deltaAngle),
              rOrigin.x, rOrigin.y)

\* scaleGroup: one axis of scaling about the given origin, in the frame of the bounds
axisScale(matrix, origin, angle, sx, sy) ==
    translate(rotate(scale(rotate(translate(matrix, Neg(origin.x), Neg(origin.y)), -angle),
                           sx, sy), angle),
              origin.x, origin.y)

\* scaleGroup leaving the direction of the handle out of the factors
scaleFactorsUnsigned(handle, pointerPosition, bounds, handlePosition) ==
    ByValue(<<topLeft(bounds), topRight(bounds), bottomLeft(bounds),
              Sub(pointerPosition.x, handlePosition.x),
              Sub(pointerPosition.y, handlePosition.y)>>, LAMBDA v :
        [sx |-> IF SCALE_COMPONENTS[handle].x = 0 THEN One
                ELSE ByValue(<<Div(Sub(v[2].x, v[1].x), bounds.width),
                               Div(Sub(v[2].y, v[1].y), bounds.width)>>, LAMBDA u :
                         Add(One, Div(Add(Mul(v[4], u[1]), Mul(v[5], u[2])), bounds.width))),
         sy |-> IF SCALE_COMPONENTS[handle].y = 0 THEN One
                ELSE ByValue(<<Div(Sub(v[3].x, v[1].x), bounds.height),
                               Div(Sub(v[3].y, v[1].y), bounds.height)>>, LAMBDA w :
                         Add(One, Div(Add(Mul(v[4], w[1]), Mul(v[5], w[2])), bounds.height)))])

\* scaleGroup: the scaling factors along the axes of the bounds
scaleFactors(handle, pointerPosition, bounds, handlePosition) ==
    ByValue(<<topLeft(bounds), topRight(bounds), bottomLeft(bounds),
              Sub(pointerPosition.x, handlePosition.x),
              Sub(pointerPosition.y, handlePosition.y)>>, LAMBDA v :
        LET xDir == SCALE_COMPONENTS[handle].x
            yDir == SCALE_COMPONENTS[handle].y
            tl == v[1]
            tr == v[2]
            bl == v[3]
            dx == v[4]
            dy == v[5]
        IN  [sx |-> IF xDir = 0 THEN One
                    ELSE ByValue(<<Div(Sub(tr.x, tl.x), bounds.width),
                                   Div(Sub(tr.y, tl.y), bounds.width)>>, LAMBDA u :
                         ByValue(Add(Mul(dx, u[1]), Mul(dy, u[2])), LAMBDA du :
                             Add(One, Div(Mul(du, Num(xDir)), bounds.width)))),
             sy |-> IF yDir = 0 THEN One
                    ELSE ByValue(<<Div(Sub(bl.x, tl.x), bounds.height),
                                   Div(Sub(bl.y, tl.y), bounds.height)>>, LAMBDA w :
                         ByValue(Add(Mul(dx, w[1]), Mul(dy, w[2])), LAMBDA dv :
                             Add(One, Div(Mul(dv, Num(yDir)), bounds.height))))])

\* the horizontal origin taken on the side of the dragged handle
hsOriginSameSide(xDir, bounds, centered) ==
    IF ~centered THEN (IF xDir = 1 THEN topRight(bounds) ELSE topLeft(bounds))
    ELSE center(bounds)

\* the horizontal origin taken without regard to centeredScaling
hsOriginNeverCentered(xDir, bounds, centered) ==
    IF xDir = 1 THEN topLeft(bounds) ELSE topRight(bounds)

\* scaleGroup: the origin of the horizontal scaling
hsOrigin(xDir, bounds, centered) ==
    IF ~centered THEN (IF xDir = 1 THEN topLeft(bounds) ELSE topRight(bounds))
    ELSE center(bounds)

\* scaleGroup: the origin of the vertical scaling
vsOrigin(yDir, bounds, centered) ==
    IF ~centered THEN (IF yDir = 1 THEN topLeft(bounds) ELSE bottomLeft(bounds))
    ELSE center(bounds)

\* scaleGroup: the horizontal scaling, when the handle has a horizontal component
horizontalScale(handle, bounds, centered, sx) ==
    IF SCALE_COMPONENTS[handle].x # 0
    THEN ByValue(hsOrigin(SCALE_COMPONENTS[handle].x, bounds, centered), LAMBDA o :
             axisScale(identity, o, bounds.rotation, sx, One))
    ELSE identity

\* scaleGroup: the vertical scaling on top of matrix, when the handle has a vertical component
verticalScale(matrix, handle, bounds, centered, sy) ==
    IF SCALE_COMPONENTS[handle].y # 0
    THEN ByValue(vsOrigin(SCALE_COMPONENTS[handle].y, bounds, centered), LAMBDA o :
             axisScale(matrix, o, bounds.rotation, One, sy))
    ELSE matrix

scaleMatrix(handle, pointerPosition, bounds, handlePosition, centered) ==
    ByValue(scaleFactors(handle, pointerPosition, bounds, handlePosition), LAMBDA f :
    ByValue(horizontalScale(handle, bounds, centered, f.sx), LAMBDA m1 :
        verticalScale(m1, handle, bounds, centered, f.sy)))

\* scaleGroup divides by the width and by the height of the bounds on the axes it scales
scaleFinite(handle, bounds) ==
    /\ SCALE_COMPONENTS[handle].x # 0 => bounds.width # Zero
    /\ SCALE_COMPONENTS[handle].y # 0 => bounds.height # Zero

\* skewGroup: the angle of the pointer about the center of the bounds
pointerAngle(pointerPosition, bounds) ==
    ByValue(center(bounds), LAMBDA sOrigin :
        Atan2(Sub(pointerPosition.y, sOrigin.y), Sub(pointerPosition.x, sOrigin.x)))

\* skewGroup leaving the rotation alone on a vertical skew
skewAnglesUntilted(handle, pointerPosition, bounds, oldSkewX, oldSkewY, snapTolerance, snaps) ==
    IF handle = "skewHorizontal"
    THEN [skewX |-> snapAngle(pointerAngle(pointerPosition, bounds), snapTolerance, snaps),
          skewY |-> oldSkewY,
          rotation |-> bounds.rotation]
    ELSE [skewX |-> oldSkewX,
          skewY |-> snapAngle(pointerAngle(pointerPosition, bounds) - 90, snapTolerance,
                              snaps),
          rotation |-> bounds.rotation]

\* skewGroup writing the new skew to both axes
skewAnglesBothAxes(handle, pointerPosition, bounds, oldSkewX, oldSkewY, snapTolerance, snaps) ==
    IF handle = "skewHorizontal"
    THEN ByValue(snapAngle(pointerAngle(pointerPosition, bounds), snapTolerance, snaps),
                 LAMBDA newSkewX :
             [skewX |-> newSkewX, skewY |-> newSkewX, rotation |-> bounds.rotation])
    ELSE ByValue(snapAngle(pointerAngle(pointerPosition, bounds) - 90, snapTolerance, snaps),
                 LAMBDA newSkewY :
             [skewX |-> newSkewY,
              skewY |-> newSkewY,
              rotation |-> bounds.rotation - (newSkewY - oldSkewY)])

\* skewGroup: the new _skewX, _skewY and the rotation handed to updateGroupBounds
skewAngles(handle, pointerPosition, bounds, oldSkewX, oldSkewY, snapTolerance, snaps) ==
    IF handle = "skewHorizontal"
    THEN [skewX |-> snapAngle(pointerAngle(pointerPosition, bounds), snapTolerance, snaps),
          skewY |-> oldSkewY,
          rotation |-> bounds.rotation]
    ELSE ByValue(snapAngle(pointerAngle(pointerPosition, bounds) - 90, snapTolerance, snaps),
                 LAMBDA newSkewY :
             [skewX |-> oldSkewX,
              skewY |-> newSkewY,
              rotation |-> bounds.rotation - (newSkewY - oldSkewY)])

\* skewGroup: un-shear by the old skew, shear by the new one, about sOrigin
skewMatrix(handle, sOrigin, oldSkew, newSkew) ==
    ByValue(translate(identity, Neg(sOrigin.x), Neg(sOrigin.y)), LAMBDA m0 :
        translate(IF handle = "skewHorizontal"
                  THEN prepend(prepend(m0, createVerticalSkew(-oldSkew)),
                               createVerticalSkew(newSkew))
                  ELSE prepend(prepend(m0, createHorizontalSkew(oldSkew)),
                               createHorizontalSkew(-newSkew)),
                  sOrigin.x, sOrigin.y))

\* the point half way between p and q
mid(p, q) == Point(Half(Add(p.x, q.x)), Half(Add(p.y, q.y)))

\* drawHandles: the positions of the handles of the enabled kinds
drawHandles(bounds, old, rotateOn, scaleOn, skewOn, skewX, skewY, radius) ==
    ByValue(<<topLeft(bounds), topRight(bounds), bottomLeft(bounds), bottomRight(bounds),
              center(bounds), pad(bounds, ROTATOR_PADDING), Num(radius)>>, LAMBDA v :
        LET tl == v[1]
            tr == v[2]
            bl == v[3]
            br == v[4]
            c == v[5]
            padded == v[6]
            r == v[7]
        IN  [h \in HandleSet |->
                CASE h = "rotator" /\ rotateOn -> mid(topLeft(padded), topRight(padded))
                  [] h = "topLeft" /\ scaleOn -> tl
                  [] h = "topCenter" /\ scaleOn -> mid(tl, tr)
                  [] h = "topRight" /\ scaleOn -> tr
                  [] h = "middleLeft" /\ scaleOn -> mid(tl, bl)
                  [] h = "middleCenter" /\ scaleOn -> mid(tl, br)
                  [] h = "middleRight" /\ scaleOn -> mid(tr, br)
                  [] h = "bottomLeft" /\ scaleOn -> bl
                  [] h = "bottomCenter" /\ scaleOn -> mid(bl, br)
                  [] h = "bottomRight" /\ scaleOn -> br
                  [] h = "skewHorizontal" /\ skewOn ->
                        Point(Add(c.x, Mul(Cos(skewX), r)), Add(c.y, Mul(Sin(skewX), r)))
                  [] h = "skewVertical" /\ skewOn ->
                        Point(Add(c.x, Mul(Neg(Sin(skewY)), r)), Add(c.y, Mul(Cos(skewY), r)))
                  [] OTHER -> old[h]])

----------------------------------------------------------------------------
(* Bounds of the exploration *)

\* the number of gestures (matrices applied to the group) in one behaviour
MaxGestures == 2

\* the angles handed to snapAngle on its own, in degrees either side of zero
MaxAngle == 450

----------------------------------------------------------------------------
(* Construction *)

\* the geometry of the current state, and the two operations that led to it
snapshot == [group |-> group, groupBounds |-> groupBounds, handles |-> handles,
             _skewX |-> _skewX, _skewY |-> _skewY,
             op |-> last.op, prevOp |-> last.before.op]

zeroPoint == Point(Zero, Zero)

Rect(x, y, width, height) ==
    [x |-> Num(x), y |-> Num(y), width |-> Num(width), height |-> Num(height)]

\* a 100 x 50 rectangle at the origin
RectA == DisplayObject(identity, Rect(0, 0, 100, 50))

\* a 50 x 50 square placed at (100, 50)
RectB == DisplayObject(translate(identity, Num(100), Num(50)), Rect(0, 0, 50, 50))

\* a 100 x 50 rectangle turned by 45 degrees about the origin
RectC == DisplayObject(rotate(identity, 45), Rect(0, 0, 100, 50))

\* new Transformer(opts): the fields of the transformer
Transformer(opts) ==
    /\ group = opts.group
    /\ centeredScaling = opts.centeredScaling
    /\ rotationSnaps = opts.rotationSnaps
    /\ rotationSnapTolerance = opts.rotationSnapTolerance
    /\ skewRadius = DEFAULT_SKEW_RADIUS
    /\ skewSnaps = opts.skewSnaps
    /\ skewSnapTolerance = opts.skewSnapTolerance
    /\ _rotateEnabled = opts.rotateEnabled
    /\ _scaleEnabled = opts.scaleEnabled
    /\ _skewEnabled = opts.skewEnabled
    /\ translateEnabled = opts.translateEnabled
    /\ transientGroupTilt = opts.transientGroupTilt
    /\ _skewX = 0
    /\ _skewY = 0
    /\ handles = [h \in HandleSet |-> zeroPoint]
    /\ _enabledHandles = undefined
    /\ visible = [h \in HandleSet |->
                     CASE h = "rotator" -> TRUE
                       [] h = "middleCenter" -> FALSE
                       [] h \in SKEW_HANDLES -> opts.skewEnabled
                       [] OTHER -> opts.scaleEnabled]
    /\ handle_pointerDown = [h \in HandleSet |-> FALSE]
    /\ handle_pointerDragging = [h \in HandleSet |-> FALSE]
    /\ groupBounds = updateGroupBounds(opts.group, 0)
    /\ _pointerDown = FALSE
    /\ _pointerDragging = FALSE
    /\ _pointerPosition = zeroPoint

\* no pointer event yet
noEvent ==
    [type |-> "none", handle |-> "none", pointerPosition |-> zeroPoint,
     inSession |-> FALSE, invoked |-> <<>>, pressed |-> [h \in HandleSet |-> FALSE]]

\* no pointer event on the body yet
noDrag ==
    [type |-> "none", pointerPosition |-> zeroPoint, inSession |-> FALSE,
     pressed |-> FALSE, first |-> undefined, previous |-> undefined, latest |-> undefined,
     origin |-> <<>>,
     before |-> [group |-> <<>>, rotation |-> 0],
     after |-> [group |-> <<>>, rotation |-> 0]]

\* what the options ask of the handles; no pointer event yet
Asked(opts) ==
    /\ requested = [call |-> "constructor", hadList |-> FALSE,
                    enabledHandles |-> opts.enabledHandles,
                    rotateEnabled |-> opts.rotateEnabled,
                    scaleEnabled |-> opts.scaleEnabled,
                    skewEnabled |-> opts.skewEnabled]
    /\ event = noEvent
    /\ drag = noDrag

\* new Transformer(opts), with nothing done to it yet
Construct(opts) ==
    /\ Transformer(opts)
    /\ gestures = 0
    /\ Asked(opts)
    /\ last = [op |-> "constructor", handle |-> "none", pointerPosition |-> zeroPoint,
               matrix |-> identity,
               before |-> [group |-> opts.group,
                           groupBounds |-> updateGroupBounds(opts.group, 0),
                           handles |-> [h \in HandleSet |-> zeroPoint],
                           _skewX |-> 0, _skewY |-> 0,
                           op |-> "none", prevOp |-> "none"]]

----------------------------------------------------------------------------
(* The operations *)

Record(op, handle, pointerPosition, matrix) ==
    \E before \in {snapshot} :
        last' = [op |-> op, handle |-> handle, pointerPosition |-> pointerPosition,
                 matrix |-> matrix, before |-> before]

translateGroup(delta) ==
    \E matrix \in {translate(identity, delta.x, delta.y)} :
    \E moved \in {prependTransform(group, matrix)} :
        /\ gestures < MaxGestures
        /\ group' = moved
        /\ groupBounds' = updateGroupBounds(moved, groupBounds.rotation)
        /\ gestures' = gestures + 1
        /\ Record("translateGroup", "none", delta, matrix)
        /\ UNCHANGED <<handles, _skewX, _skewY, options>>

\* the angles of the rotator handle and of the pointer about the center can be measured
rotateMeasurable(bounds, org, pointerPosition) ==
    ByValue(center(bounds), LAMBDA rOrigin :
        /\ OnGrid(Sub(org.y, rOrigin.y), Sub(org.x, rOrigin.x))
        /\ OnGrid(Sub(pointerPosition.y, rOrigin.y), Sub(pointerPosition.x, rOrigin.x)))

rotateGroup(handle, pointerPosition) ==
    /\ gestures < MaxGestures
    /\ rotateMeasurable(groupBounds, handles[handle], pointerPosition)
    /\ \E r \in {rotateAngles(groupBounds, handles[handle], pointerPosition,
                              rotationSnapTolerance, rotationSnaps)} :
       \E matrix \in {rotationMatrix(center(groupBounds), r.deltaAngle)} :
       \E moved \in {prependTransform(group, matrix)} :
          /\ group' = moved
          /\ groupBounds' = updateGroupBounds(moved, r.newRotation)
          /\ _skewX' = _skewX + r.deltaAngle
          /\ _skewY' = _skewY + r.deltaAngle
          /\ gestures' = gestures + 1
          /\ Record("rotateGroup", handle, pointerPosition, matrix)
          /\ UNCHANGED <<handles, options>>

scaleGroup(handle, pointerPosition) ==
    /\ gestures < MaxGestures
    /\ scaleFinite(handle, groupBounds)
    /\ \E matrix \in {scaleMatrix(handle, pointerPosition, groupBounds, handles[handle],
                                  centeredScaling)} :
       \E moved \in {prependTransform(group, matrix)} :
          /\ group' = moved
          /\ groupBounds' = updateGroupBounds(moved, groupBounds.rotation)
          /\ gestures' = gestures + 1
          /\ Record("scaleGroup", handle, pointerPosition, matrix)
          /\ UNCHANGED <<handles, _skewX, _skewY, options>>

\* the angle of the pointer about the center can be measured, and Math.tan of the old
\* and of the new skew is finite
skewMeasurable(handle, pointerPosition, bounds, oldSkewX, oldSkewY, snapTolerance, snaps) ==
    /\ ByValue(center(bounds), LAMBDA sOrigin :
           OnGrid(Sub(pointerPosition.y, sOrigin.y), Sub(pointerPosition.x, sOrigin.x)))
    /\ ByValue(skewAngles(handle, pointerPosition, bounds, oldSkewX, oldSkewY,
                          snapTolerance, snaps), LAMBDA k :
           IF handle = "skewHorizontal"
           THEN TanFinite(oldSkewX) /\ TanFinite(k.skewX)
           ELSE TanFinite(oldSkewY) /\ TanFinite(k.skewY))

skewGroup(handle, pointerPosition) ==
    /\ gestures < MaxGestures
    /\ skewMeasurable(handle, pointerPosition, groupBounds, _skewX, _skewY,
                      skewSnapTolerance, skewSnaps)
    /\ \E k \in {skewAngles(handle, pointerPosition, groupBounds, _skewX, _skewY,
                            skewSnapTolerance, skewSnaps)} :
       \E matrix \in {IF handle = "skewHorizontal"
                      THEN skewMatrix(handle, center(groupBounds), _skewX, k.skewX)
                      ELSE skewMatrix(handle, center(groupBounds), _skewY, k.skewY)} :
       \E moved \in {prependTransform(group, matrix)} :
          /\ group' = moved
          /\ groupBounds' = updateGroupBounds(moved, k.rotation)
          /\ _skewX' = k.skewX
          /\ _skewY' = k.skewY
          /\ gestures' = gestures + 1
          /\ Record("skewGroup", handle, pointerPosition, matrix)
          /\ UNCHANGED <<handles, options>>

\* commitGroup resetting the rotation whatever transientGroupTilt and the group are
commitGroupAlways ==
    /\ \E bounds \in {updateGroupBounds(group, 0)} : groupBounds' = bounds
    /\ Record("commitGroup", "none", zeroPoint, identity)
    /\ UNCHANGED <<group, handles, _skewX, _skewY, options, gestures>>

commitGroup ==
    /\ \E bounds \in {IF transientGroupTilt /\ Len(group) > 1
                      THEN updateGroupBounds(group, 0)
                      ELSE groupBounds} :
          groupBounds' = bounds
    /\ Record("commitGroup", "none", zeroPoint, identity)
    /\ UNCHANGED <<group, handles, _skewX, _skewY, options, gestures>>

\* draw taking the group variant whatever the number of members
drawBoundsGroupVariant(grp, bounds) == calculateGroupOrientedBounds(grp, bounds.rotation)

\* draw: the fresh group bounds; a lone member's rotation is read off its world transform
drawBounds(grp, bounds) ==
    IF Len(grp) # 1
    THEN calculateGroupOrientedBounds(grp, bounds.rotation)
    ELSE calculateOrientedBounds(grp[1])

draw ==
    /\ Len(group) = 1 => decomposable(group[1].worldTransform)
    /\ \E fresh \in {drawBounds(group, groupBounds)} :
       \E placed \in {drawHandles(fresh, handles, _rotateEnabled, _scaleEnabled,
                                  _skewEnabled, _skewX, _skewY, skewRadius)} :
          /\ handles' = placed
          /\ groupBounds' = fresh
    /\ Record("draw", "none", zeroPoint, identity)
    /\ UNCHANGED <<group, _skewX, _skewY, options, gestures>>

----------------------------------------------------------------------------
(* The visibility of the handles *)

\* the handles named by a list
listed(list) == {list[i] : i \in 1..Len(list)}

\* the options other than the three toggles
settings ==
    <<centeredScaling, transientGroupTilt, rotationSnaps, rotationSnapTolerance,
      skewSnaps, skewSnapTolerance, skewRadius, translateEnabled>>

Ask(call, value) ==
    requested' = [requested EXCEPT !.call = call, ![call] = value,
                                   !.hadList = _enabledHandles # undefined]

\* visibility by the three toggles; middleCenter stays hidden
toggled(rotateOn, scaleOn, skewOn) ==
    [h \in HandleSet |->
        CASE h = "rotator" -> rotateOn
          [] h = "middleCenter" -> FALSE
          [] h \in SKEW_HANDLES -> skewOn
          [] OTHER -> scaleOn]

\* set enabledHandles(value)
set_enabledHandles(value) ==
    /\ IF _enabledHandles = undefined /\ value = undefined
       THEN UNCHANGED <<_enabledHandles, visible>>
       ELSE /\ _enabledHandles' = value
            /\ visible' = IF value # undefined
                          THEN [h \in HandleSet |-> h \in listed(value[1])]
                          ELSE toggled(_rotateEnabled, _scaleEnabled, _skewEnabled)
    /\ Ask("enabledHandles", value)
    /\ UNCHANGED <<geometry, options, last, gestures, handle_pointerDown,
                   handle_pointerDragging, event, pointerState>>

\* set rotateEnabled(value): the body runs when !this._rotateEnabled !== value
set_rotateEnabled(value) ==
    /\ IF (~_rotateEnabled) # value
       THEN /\ _rotateEnabled' = value
            /\ visible' = IF _enabledHandles # undefined THEN visible
                          ELSE [visible EXCEPT !["rotator"] = value]
       ELSE UNCHANGED <<_rotateEnabled, visible>>
    /\ Ask("rotateEnabled", value)
    /\ UNCHANGED <<geometry, settings, _scaleEnabled, _skewEnabled, last, gestures,
                   _enabledHandles, handle_pointerDown, handle_pointerDragging, event,
                   pointerState>>

\* set scaleEnabled(value): the body runs when !this._scaleEnabled !== value
set_scaleEnabled(value) ==
    /\ IF (~_scaleEnabled) # value
       THEN /\ _scaleEnabled' = value
            /\ visible' = IF _enabledHandles # undefined THEN visible
                          ELSE [h \in HandleSet |->
                                   IF h \in listed(SCALE_HANDLES) \ {"middleCenter"}
                                   THEN value ELSE visible[h]]
       ELSE UNCHANGED <<_scaleEnabled, visible>>
    /\ Ask("scaleEnabled", value)
    /\ UNCHANGED <<geometry, settings, _rotateEnabled, _skewEnabled, last, gestures,
                   _enabledHandles, handle_pointerDown, handle_pointerDragging, event,
                   pointerState>>

\* set skewEnabled(value): the body runs when this._skewEnabled !== value
set_skewEnabled(value) ==
    /\ IF _skewEnabled # value
       THEN /\ _skewEnabled' = value
            /\ visible' = IF _enabledHandles # undefined THEN visible
                          ELSE [h \in HandleSet |->
                                   IF h \in SKEW_HANDLES THEN value ELSE visible[h]]
       ELSE UNCHANGED <<_skewEnabled, visible>>
    /\ Ask("skewEnabled", value)
    /\ UNCHANGED <<geometry, settings, _rotateEnabled, _scaleEnabled, last, gestures,
                   _enabledHandles, handle_pointerDown, handle_pointerDragging, event,
                   pointerState>>

----------------------------------------------------------------------------
(* The pointer events of a TransformerHandle *)

\* HANDLE_TO_CURSOR[h]; undefined for the handles it does not list
HANDLE_TO_CURSOR(h) ==
    CASE h = "topLeft" -> "nw-resize"
      [] h = "topCenter" -> "n-resize"
      [] h = "topRight" -> "ne-resize"
      [] h = "middleLeft" -> "w-resize"
      [] h = "middleRight" -> "e-resize"
      [] h = "bottomLeft" -> "sw-resize"
      [] h = "bottomCenter" -> "s-resize"
      [] h = "bottomRight" -> "se-resize"
      [] OTHER -> "undefined"

\* the arguments of new HandleConstructor(...) for handle h, in the order they are passed:
\* the handle key, the style, the gesture callback, this.commitGroup and the cursor
HandleArguments(h) ==
    <<h,
      "handleStyle",
      CASE h = "rotator" -> "rotateGroup"
        [] h \in SKEW_HANDLES -> "skewGroup"
        [] OTHER -> "scaleGroup",
      "commitGroup",
      CASE h = "rotator" -> "undefined"
        [] h \in SKEW_HANDLES -> "pointer"
        [] OTHER -> HANDLE_TO_CURSOR(h),
      "undefined">>

\* TransformerHandle's constructor takes (transformer, handle, styleOpts, handler, commit,
\* cursor): onHandleDelta is its fourth parameter and onHandleCommit its fifth
onHandleDelta(h) == HandleArguments(h)[4]

onHandleCommit(h) == HandleArguments(h)[5]

\* one call made while a pointer event is handled
Call(fn, handle, pointerPosition) ==
    [fn |-> fn, handle |-> handle, pointerPosition |-> pointerPosition]

\* the pointer event handled and the calls it made.  pressed[h]: a pointer-down on
\* handle h has been seen and no pointer-up since; inSession: that held before this event
Handled(type, h, pointerPosition, invoked) ==
    event' = [type |-> type, handle |-> h, pointerPosition |-> pointerPosition,
              inSession |-> event.pressed[h],
              invoked |-> invoked,
              pressed |-> [event.pressed EXCEPT
                              ![h] = CASE type = "pointerdown" -> TRUE
                                       [] type = "pointerup" -> FALSE
                                       [] OTHER -> @]]

\* the callback value is invoked: commitGroup runs, anything else is not a function
Invoked(callback) ==
    IF callback = "commitGroup"
    THEN commitGroup
    ELSE UNCHANGED <<geometry, options, last, gestures>>

handle_onPointerDown(h) ==
    /\ handle_pointerDown' = [handle_pointerDown EXCEPT ![h] = TRUE]
    /\ handle_pointerDragging' = [handle_pointerDragging EXCEPT ![h] = FALSE]
    /\ Handled("pointerdown", h, zeroPoint, <<>>)
    /\ UNCHANGED <<geometry, options, last, gestures, _enabledHandles, visible, requested,
                   pointerState>>

\* onPointerMove: onDragStart on the first move after the pointer-down, onDrag afterwards
handle_onPointerMove(h, pointerPosition) ==
    /\ IF ~handle_pointerDown[h]
       THEN /\ Handled("pointermove", h, pointerPosition, <<>>)
            /\ UNCHANGED <<geometry, options, last, gestures, handle_pointerDragging>>
       ELSE IF handle_pointerDragging[h]
       THEN /\ Invoked(onHandleDelta(h))
            /\ Handled("pointermove", h, pointerPosition,
                       <<Call(onHandleDelta(h), "none", pointerPosition)>>)
            /\ UNCHANGED handle_pointerDragging
       ELSE /\ handle_pointerDragging' = [handle_pointerDragging EXCEPT ![h] = TRUE]
            /\ Handled("pointermove", h, pointerPosition, <<>>)
            /\ UNCHANGED <<geometry, options, last, gestures>>
    /\ UNCHANGED <<handle_pointerDown, _enabledHandles, visible, requested, pointerState>>

\* onPointerUp: onDragEnd when dragging; a commit callback that is not a function throws
\* out of the handler before _pointerDown is cleared
handle_onPointerUp(h) ==
    /\ handle_pointerDragging' = [handle_pointerDragging EXCEPT ![h] = FALSE]
    /\ IF handle_pointerDragging[h] /\ onHandleCommit(h) # "undefined"
       THEN /\ Invoked(onHandleCommit(h))
            /\ Handled("pointerup", h, zeroPoint,
                       <<IF onHandleCommit(h) = "commitGroup"
                         THEN Call("commitGroup", "none", zeroPoint)
                         ELSE Call("TypeError", "none", zeroPoint)>>)
            /\ handle_pointerDown' =
                  IF onHandleCommit(h) = "commitGroup"
                  THEN [handle_pointerDown EXCEPT ![h] = FALSE]
                  ELSE handle_pointerDown
       ELSE /\ Handled("pointerup", h, zeroPoint, <<>>)
            /\ handle_pointerDown' = [handle_pointerDown EXCEPT ![h] = FALSE]
            /\ UNCHANGED <<geometry, options, last, gestures>>
    /\ UNCHANGED <<_enabledHandles, visible, requested, pointerState>>

----------------------------------------------------------------------------
(* The pointer events of the Transformer itself: a drag on its body *)

\* the state of the handles, which a pointer event on the body leaves alone
handleState ==
    <<_enabledHandles, visible, handle_pointerDown, handle_pointerDragging, requested, event>>

\* onPointerMove taking the pointer position itself for the displacement
dragDeltaAbsolute(currentPointerPosition, lastPointerPosition) == currentPointerPosition

\* onPointerMove: delta.x -= lastPointerPosition.x; delta.y -= lastPointerPosition.y
dragDelta(currentPointerPosition, lastPointerPosition) ==
    Point(Sub(currentPointerPosition.x, lastPointerPosition.x),
          Sub(currentPointerPosition.y, lastPointerPosition.y))

\* the pointer event handled on the body, with the group and the rotation of the bounds
\* before and after it.  pressed: a pointer-down has been seen and no pointer-up since;
\* inSession: that held before this event; first, previous: the first sample of the
\* session and the sample before this one; origin: the group when the first sample came
Dragged(type, pointerPosition) ==
    \E sample \in {type = "pointermove" /\ drag.pressed} :
        drag' = [type |-> type,
                 pointerPosition |-> pointerPosition,
                 inSession |-> drag.pressed,
                 pressed |-> CASE type = "pointerdown" -> TRUE
                               [] type = "pointerup" -> FALSE
                               [] OTHER -> drag.pressed,
                 first |-> IF ~sample THEN undefined
                           ELSE IF drag.first = undefined THEN Some(pointerPosition)
                           ELSE drag.first,
                 previous |-> IF sample THEN drag.latest ELSE undefined,
                 latest |-> IF sample THEN Some(pointerPosition) ELSE undefined,
                 origin |-> IF ~sample THEN <<>>
                            ELSE IF drag.first = undefined THEN group
                            ELSE drag.origin,
                 before |-> [group |-> group, rotation |-> groupBounds.rotation],
                 after |-> [group |-> group', rotation |-> groupBounds'.rotation]]

onPointerDown ==
    /\ _pointerDown' = TRUE
    /\ _pointerDragging' = FALSE
    /\ UNCHANGED <<geometry, options, last, gestures, _pointerPosition, handleState>>
    /\ Dragged("pointerdown", zeroPoint)

\* onPointerMove: nothing without a pointer-down; the first move after it only records the
\* position; the later ones translate the group by the difference to the last position
onPointerMove(currentPointerPosition) ==
    /\ IF ~_pointerDown
       THEN UNCHANGED <<geometry, options, last, gestures, _pointerPosition, _pointerDragging>>
       ELSE /\ IF _pointerDragging /\ translateEnabled
               THEN translateGroup(dragDelta(currentPointerPosition, _pointerPosition))
               ELSE UNCHANGED <<geometry, options, last, gestures>>
            /\ _pointerPosition' = currentPointerPosition
            /\ _pointerDragging' = TRUE
    /\ UNCHANGED <<_pointerDown, handleState>>
    /\ Dragged("pointermove", currentPointerPosition)

onPointerUp ==
    /\ _pointerDragging' = FALSE
    /\ _pointerDown' = FALSE
    /\ UNCHANGED <<geometry, options, last, gestures, _pointerPosition, handleState>>
    /\ Dragged("pointerup", zeroPoint)

\* a method called from code, not by a pointer event
fromCode == UNCHANGED interaction

----------------------------------------------------------------------------
(* The inputs explored *)

\* the eight compass directions
Directions ==
    {<<1, 0>>, <<1, 1>>, <<0, 1>>, <<-1, 1>>, <<-1, 0>>, <<-1, -1>>, <<0, -1>>, <<1, -1>>}

\* the pointer at 80 units from p along direction d
PointerAt(p, d) == Point(Add(p.x, Num(80 * d[1])), Add(p.y, Num(80 * d[2])))

\* the pointer displaced by d from p
Displaced(p, d) == Point(Add(p.x, Num(d[1])), Add(p.y, Num(d[2])))

\* pointer displacements from a scale handle: growing, and past the pivot on either side
ScaleDeltas == {<<50, 0>>, <<150, 100>>, <<-150, -100>>}

DefaultSnapping ==
    [rotationSnaps |-> DEFAULT_ROTATION_SNAPS,
     rotationSnapTolerance |-> DEFAULT_ROTATION_SNAP_TOLERANCE,
     skewSnaps |-> DEFAULT_SKEW_SNAPS,
     skewSnapTolerance |-> DEFAULT_SKEW_SNAP_TOLERANCE]

\* quarter-turn snaps with a tolerance of 45 degrees
CoarseSnapping ==
    [rotationSnaps |-> <<90, 180, -90, -180>>,
     rotationSnapTolerance |-> 45,
     skewSnaps |-> DEFAULT_SKEW_SNAPS,
     skewSnapTolerance |-> 45]

\* empty snap lists
NoSnapping ==
    [rotationSnaps |-> <<>>,
     rotationSnapTolerance |-> DEFAULT_ROTATION_SNAP_TOLERANCE,
     skewSnaps |-> <<>>,
     skewSnapTolerance |-> DEFAULT_SKEW_SNAP_TOLERANCE]

\* one snap value per list, with a tolerance of 45 degrees
SingleSnapping ==
    [rotationSnaps |-> <<90>>,
     rotationSnapTolerance |-> 45,
     skewSnaps |-> <<45>>,
     skewSnapTolerance |-> 45]

Options(grp, centered, tilt, snapping) ==
    [group |-> grp, centeredScaling |-> centered, transientGroupTilt |-> tilt,
     rotationSnaps |-> snapping.rotationSnaps,
     rotationSnapTolerance |-> snapping.rotationSnapTolerance,
     skewSnaps |-> snapping.skewSnaps,
     skewSnapTolerance |-> snapping.skewSnapTolerance,
     rotateEnabled |-> TRUE, scaleEnabled |-> TRUE, skewEnabled |-> TRUE,
     translateEnabled |-> TRUE, enabledHandles |-> undefined]

Groups == {<<RectA>>, <<RectA, RectB>>}

\* no member at all, and a lone member that is already turned
OtherGroups == {<<>>, <<RectC>>}

----------------------------------------------------------------------------
(* The specifications *)

\* every gesture, with a few pointer positions each
Init ==
    \/ \E grp \in Groups, tilt \in BOOLEAN, snapping \in {DefaultSnapping, CoarseSnapping} :
          Construct(Options(grp, FALSE, tilt, snapping))
    \/ \E grp \in OtherGroups : Construct(Options(grp, FALSE, TRUE, DefaultSnapping))

\* the gestures that measure the pointer against the bounds are explored on groups that
\* have bounds to measure against
Next ==
    \/ \E d \in {<<1, 0>>, <<-1, -1>>} :
          /\ group # <<>>
          /\ rotateGroup("rotator", PointerAt(center(groupBounds), d))
          /\ fromCode
    \/ \E h \in {"bottomRight"}, d \in {<<50, 0>>} :
          /\ group # <<>>
          /\ scaleGroup(h, Displaced(handles[h], d))
          /\ fromCode
    \/ \E h \in SKEW_HANDLES, d \in {<<1, 1>>} :
          /\ group # <<>>
          /\ skewGroup(h, PointerAt(center(groupBounds), d))
          /\ fromCode
    \/ \E d \in {<<10, 0>>} : translateGroup(Point(Num(d[1]), Num(d[2]))) /\ fromCode
    \/ commitGroup /\ fromCode
    \/ draw /\ fromCode

Spec == Init /\ [][Next]_vars

\* the rotate gesture with the pointer in every compass direction
InitRotate ==
    \E grp \in Groups, snapping \in {DefaultSnapping, CoarseSnapping, NoSnapping} :
        Construct(Options(grp, FALSE, FALSE, snapping))

NextRotate ==
    \/ \E d \in Directions :
          rotateGroup("rotator", PointerAt(center(groupBounds), d)) /\ fromCode
    \/ draw /\ fromCode

SpecRotate == InitRotate /\ [][NextRotate]_vars

\* the scale gesture on the eight active handles, on upright and on tilted bounds
InitScale ==
    \E grp \in Groups, centered \in BOOLEAN :
        Construct(Options(grp, centered, FALSE, DefaultSnapping))

NextScale ==
    \/ \E h \in HandleSet \ {"middleCenter", "rotator", "skewHorizontal", "skewVertical"},
          d \in ScaleDeltas :
          scaleGroup(h, Displaced(handles[h], d)) /\ fromCode
    \/ \E d \in {<<1, -1>>} :
          rotateGroup("rotator", PointerAt(center(groupBounds), d)) /\ fromCode
    \/ draw /\ fromCode

SpecScale == InitScale /\ [][NextScale]_vars

\* the skew gesture on both handles with the pointer in every compass direction
InitSkew ==
    \E grp \in Groups,
       snapping \in {DefaultSnapping, CoarseSnapping, SingleSnapping, NoSnapping} :
        Construct(Options(grp, FALSE, FALSE, snapping))

NextSkew ==
    \/ \E h \in SKEW_HANDLES, d \in Directions :
          skewGroup(h, PointerAt(center(groupBounds), d)) /\ fromCode
    \/ draw /\ fromCode

SpecSkew == InitSkew /\ [][NextSkew]_vars

\* snapAngle as a function of its arguments alone: one call on the arguments drawn
callSnapAngle ==
    /\ last.op = "arguments"
    /\ last' = [op |-> "snapAngle", angle |-> last.angle,
                snapTolerance |-> last.snapTolerance, snaps |-> last.snaps,
                result |-> snapAngle(last.angle, last.snapTolerance, last.snaps)]
    /\ UNCHANGED <<geometry, options, gestures, interaction>>

\* snapAngle called again on what the first call returned
callSnapAngleAgain ==
    /\ last.op = "snapAngle"
    /\ last' = [op |-> "snapAngleAgain", angle |-> last.angle,
                snapTolerance |-> last.snapTolerance, snaps |-> last.snaps,
                once |-> last.result,
                result |-> snapAngle(last.result, last.snapTolerance, last.snaps)]
    /\ UNCHANGED <<geometry, options, gestures, interaction>>

\* the default lists, quarter turns, a single entry, no entry, and a list with an entry
\* beyond a full turn
SnapLists ==
    {DEFAULT_ROTATION_SNAPS, DEFAULT_SKEW_SNAPS, <<90, 180, -90, -180>>, <<90>>, <<>>,
     <<380, 90>>}

SnapTolerances == {0, DEFAULT_ROTATION_SNAP_TOLERANCE, 45}

\* a transformer with the default options; every angle up to MaxAngle either way
InitSnap ==
    \E angle \in (-MaxAngle)..MaxAngle, snapTolerance \in SnapTolerances, snaps \in SnapLists :
        /\ Transformer(Options(<<RectA>>, FALSE, FALSE, DefaultSnapping))
        /\ Asked(Options(<<RectA>>, FALSE, FALSE, DefaultSnapping))
        /\ gestures = 0
        /\ last = [op |-> "arguments", angle |-> angle, snapTolerance |-> snapTolerance,
                   snaps |-> snaps]

NextSnap ==
    \/ callSnapAngle
    \/ callSnapAngleAgain

SpecSnap == InitSnap /\ [][NextSnap]_vars

\* the handles to show: none given, the rotator alone, a scale and a skew handle, none,
\* the center handle alone
EnabledLists ==
    {undefined, Some(<<"rotator">>), Some(<<"topLeft", "skewHorizontal">>), Some(<<>>),
     Some(<<"middleCenter">>)}

\* the options that say which handles are enabled
HandleOptions(rotateOn, scaleOn, skewOn, list) ==
    [Options(<<RectA>>, FALSE, FALSE, DefaultSnapping) EXCEPT
        !.rotateEnabled = rotateOn, !.scaleEnabled = scaleOn, !.skewEnabled = skewOn,
        !.enabledHandles = list]

\* the three toggles and the enabledHandles list, as options and through the setters
InitHandles ==
    \E rotateOn \in BOOLEAN, scaleOn \in BOOLEAN, skewOn \in BOOLEAN, list \in EnabledLists :
        Construct(HandleOptions(rotateOn, scaleOn, skewOn, list))

NextHandles ==
    \/ \E list \in EnabledLists : set_enabledHandles(list)
    \/ \E value \in BOOLEAN : set_rotateEnabled(value)
    \/ \E value \in BOOLEAN : set_scaleEnabled(value)
    \/ \E value \in BOOLEAN : set_skewEnabled(value)

SpecHandles == InitHandles /\ [][NextHandles]_vars

\* the handles that receive pointer events
DragHandles == {"rotator", "bottomRight"}

\* drag sessions on the rotator and on a scale handle, between rotations and draws
InitDrag == Construct(Options(<<RectA, RectB>>, FALSE, TRUE, NoSnapping))

NextDrag ==
    \/ \E h \in DragHandles : handle_onPointerDown(h)
    \/ \E h \in DragHandles, d \in {<<1, 0>>} :
          handle_onPointerMove(h, PointerAt(center(groupBounds), d))
    \/ \E h \in DragHandles : handle_onPointerUp(h)
    \/ \E d \in {<<1, 1>>} :
          rotateGroup("rotator", PointerAt(center(groupBounds), d)) /\ fromCode
    \/ draw /\ fromCode

SpecDrag == InitDrag /\ [][NextDrag]_vars

\* the three toggles and the enabledHandles list around a member that moves, with draws
ShownLists == {undefined, Some(<<"topLeft", "skewHorizontal">>)}

InitShown ==
    \E rotateOn \in BOOLEAN, scaleOn \in BOOLEAN, skewOn \in BOOLEAN, list \in ShownLists :
        Construct([HandleOptions(rotateOn, scaleOn, skewOn, list) EXCEPT !.group = <<RectB>>])

NextShown ==
    \/ \E list \in ShownLists : set_enabledHandles(list)
    \/ \E value \in BOOLEAN : set_rotateEnabled(value)
    \/ \E value \in BOOLEAN : set_scaleEnabled(value)
    \/ \E value \in BOOLEAN : set_skewEnabled(value)
    \/ \E d \in {<<10, 0>>} : translateGroup(Point(Num(d[1]), Num(d[2]))) /\ fromCode
    \/ draw /\ fromCode

SpecShown == InitShown /\ [][NextShown]_vars

\* the pointer positions of the samples of a drag on the body
BodyPointers == {<<0, 0>>, <<10, 0>>, <<30, 20>>}

\* drags on the body of the transformer, with and without translateEnabled, on a group of
\* two and on a lone member turned 45 degrees; draws at any time, rotations between drags
InitBody ==
    \E grp \in {<<RectA, RectB>>, <<RectC>>}, translateOn \in BOOLEAN :
        Construct([Options(grp, FALSE, FALSE, DefaultSnapping) EXCEPT
                      !.translateEnabled = translateOn])

NextBody ==
    \/ onPointerDown
    \/ \E p \in BodyPointers : onPointerMove(Point(Num(p[1]), Num(p[2])))
    \/ onPointerUp
    \/ \E d \in {<<1, 0>>} :
          /\ ~_pointerDown
          /\ rotateGroup("rotator", PointerAt(center(groupBounds), d))
          /\ fromCode
    \/ draw /\ fromCode

SpecBody == InitBody /\ [][NextBody]_vars

----------------------------------------------------------------------------
(* What the claims are stated in *)

\* the geometry before the operation that produced this state
before == last.before

\* the angle of point p about the center of the bounds, in degrees
angleAbout(bounds, p) ==
    ByValue(center(bounds), LAMBDA c : Atan2(Sub(p.y, c.y), Sub(p.x, c.x)))

\* theta of a rotate gesture: the angle the pointer subtends relative to the rotator handle
theta ==
    angleAbout(before.groupBounds, last.pointerPosition)
        - angleAbout(before.groupBounds, before.handles[last.handle])

\* the indices of the snaps within the tolerance of the angle
within(angle, snapTolerance, snaps) ==
    {i \in 1..Len(snaps) : Abs(angle - snaps[i]) <= snapTolerance}

\* the remainder of angle by a full turn that has the sign of angle
normalizedAngle(angle) ==
    CHOOSE n \in (1 - TWO_PI)..(TWO_PI - 1) : (angle - n) % TWO_PI = 0 /\ angle * n >= 0

\* snapAngle scans the list: it has other than one entry and the tolerance is not zero
scans(snapTolerance, snaps) == Len(snaps) # 1 /\ snapTolerance # 0

\* a snap value applies to the angle
snapApplies(angle, snapTolerance, snaps) ==
    scans(snapTolerance, snaps) /\ within(normalizedAngle(angle), snapTolerance, snaps) # {}

\* the matrix is a rotation by the angle, about some point
isRotationBy(matrix, angle) ==
    /\ matrix.a = Cos(angle)
    /\ matrix.b = Sin(angle)
    /\ matrix.c = Neg(Sin(angle))
    /\ matrix.d = Cos(angle)

rotated == last.op = "rotateGroup"

unsnappedRotate ==
    rotated /\ ~snapApplies(before.groupBounds.rotation + theta, rotationSnapTolerance,
                            rotationSnaps)

----------------------------------------------------------------------------
(* C1 *)

\* C1 as stated: after a rotateGroup call to which no snap value applies, the rotation
\* of the group bounds is the rotation before the call plus theta, and _skewX and _skewY
\* have each increased by exactly theta.
C1_RotationAdvancesByTheta ==
    unsnappedRotate =>
        /\ groupBounds.rotation = before.groupBounds.rotation + theta
        /\ _skewX = before._skewX + theta
        /\ _skewY = before._skewY + theta

\* C1 amended: after a rotateGroup call to which no snap value applies, the rotation of
\* the group bounds is the rotation before the call plus theta, reduced by whole turns
\* towards zero (JavaScript's % by 2*PI); _skewX and _skewY have each increased by the
\* change of the rotation, which is theta whenever |rotation before + theta| is less
\* than a full turn.
C1_RotationAdvancesModuloTurn ==
    unsnappedRotate =>
        /\ groupBounds.rotation = normalizedAngle(before.groupBounds.rotation + theta)
        /\ _skewX - before._skewX = groupBounds.rotation - before.groupBounds.rotation
        /\ _skewY - before._skewY = groupBounds.rotation - before.groupBounds.rotation
        /\ Abs(before.groupBounds.rotation + theta) < TWO_PI =>
              /\ groupBounds.rotation = before.groupBounds.rotation + theta
              /\ _skewX = before._skewX + theta
              /\ _skewY = before._skewY + theta

\* a rotate gesture by a quarter turn or more on bounds that were already rotated, to
\* which no snap value applied
C1_Witness ==
    /\ unsnappedRotate
    /\ before.groupBounds.rotation # 0
    /\ Abs(theta) >= 90
    /\ groupBounds.rotation = before.groupBounds.rotation + theta

----------------------------------------------------------------------------
(* C2 *)

\* C2: the matrix a rotateGroup call applies to every member is a rotation by the
\* rotation of the group bounds after the call minus the rotation before it, whatever
\* the pointer and the snaps; and after any sequence of rotate gestures on members that
\* started upright, every member is turned by the rotation of the group bounds.
C2_AppliedAngleIsRotationChange ==
    /\ rotated =>
          /\ isRotationBy(last.matrix,
                          groupBounds.rotation - before.groupBounds.rotation)
          /\ \A i \in 1..Len(group) :
                group[i].worldTransform
                    = prepend(before.group[i].worldTransform, last.matrix)
    /\ \A i \in 1..Len(group) : isRotationBy(group[i].worldTransform, groupBounds.rotation)

\* the second rotate gesture of a sequence, snapped away from the angle of the pointer
C2_Witness ==
    /\ rotated
    /\ before.op = "rotateGroup"
    /\ groupBounds.rotation # normalizedAngle(before.groupBounds.rotation + theta)
    /\ groupBounds.rotation # before.groupBounds.rotation

----------------------------------------------------------------------------
(* C3 *)

\* C3: commitGroup sets the rotation of the group bounds to 0 exactly when
\* transientGroupTilt is on and the group has more than one member, and leaves it alone
\* otherwise; the draw that follows such a commit reports rotation 0, and neither the
\* commit nor the draw touches the transforms of the members.
C3_CommitResetsTransientTilt ==
    /\ last.op = "commitGroup" =>
          /\ groupBounds.rotation
                = IF transientGroupTilt /\ Len(group) > 1 THEN 0
                  ELSE before.groupBounds.rotation
          /\ group = before.group
    /\ (last.op = "draw" /\ before.op = "commitGroup" /\ transientGroupTilt
            /\ Len(group) > 1) =>
          /\ groupBounds.rotation = 0
          /\ group = before.group

\* a two-member group was rotated and released with transientGroupTilt on: the draw
\* after the release reports rotation 0 and the members are still turned
C3_Witness ==
    /\ last.op = "draw" /\ before.op = "commitGroup" /\ before.prevOp = "rotateGroup"
    /\ transientGroupTilt /\ Len(group) = 2
    /\ groupBounds.rotation = 0
    /\ \A i \in 1..2 : group[i].worldTransform.b # Zero

----------------------------------------------------------------------------
(* C4, C5, C6 *)

scaled == last.op = "scaleGroup"

\* the corners of bounds, by the signs of their directions from the center
cornerAt(bounds, k) ==
    CASE k = <<-1, -1>> -> topLeft(bounds)
      [] k = <<1, -1>> -> topRight(bounds)
      [] k = <<-1, 1>> -> bottomLeft(bounds)
      [] k = <<1, 1>> -> bottomRight(bounds)

\* the corners opposite a scale handle: one for a corner handle, the two ends of the
\* opposite edge for an edge handle
oppositeCorners(handle) ==
    {k \in {<<-1, -1>>, <<1, -1>>, <<-1, 1>>, <<1, 1>>} :
        /\ SCALE_COMPONENTS[handle].x # 0 => k[1] = -SCALE_COMPONENTS[handle].x
        /\ SCALE_COMPONENTS[handle].y # 0 => k[2] = -SCALE_COMPONENTS[handle].y}

pivotKept ==
    \A k \in oppositeCorners(last.handle) :
        cornerAt(groupBounds, k) = cornerAt(before.groupBounds, k)

\* the factors of the last scale gesture
lastFactors ==
    scaleFactors(last.handle, last.pointerPosition, before.groupBounds,
                 before.handles[last.handle])

\* the pointer has not been dragged past the pivot on either axis
notPastPivot == Sign(lastFactors.sx) >= 0 /\ Sign(lastFactors.sy) >= 0

\* C4 as stated: with centeredScaling off, for every scale handle and every pointer
\* position, the corner or edge of the bounds opposite the handle is at the same world
\* position after scaleGroup as before.
C4_PivotKept == (scaled /\ ~centeredScaling) => pivotKept

\* C4 amended: with centeredScaling off, for every scale handle and every pointer
\* position that leaves both scale factors non-negative (the handle is not dragged past
\* the pivot), the corner or edge of the bounds opposite the handle is at the same world
\* position after scaleGroup as before.
C4_PivotKeptUnlessFlipped == (scaled /\ ~centeredScaling /\ notPastPivot) => pivotKept

\* a scale gesture on tilted bounds that changed their size and was not dragged past
\* the pivot
C4_Witness ==
    /\ scaled /\ ~centeredScaling /\ notPastPivot
    /\ before.groupBounds.rotation = 45
    /\ groupBounds.width # before.groupBounds.width
    /\ groupBounds.height # before.groupBounds.height

\* C5: with centeredScaling on, for every scale handle and every pointer position, the
\* center of the group bounds is the same world point after scaleGroup as before.
C5_CenterKept ==
    (scaled /\ centeredScaling) => center(groupBounds) = center(before.groupBounds)

\* a centered scale gesture on tilted bounds, dragged past the center
C5_Witness ==
    /\ scaled /\ centeredScaling
    /\ before.groupBounds.rotation = 45
    /\ ~notPastPivot
    /\ groupBounds.width # before.groupBounds.width

\* the displacement of the pointer from the position of the dragged handle
pointerDx == Sub(last.pointerPosition.x, before.handles[last.handle].x)

pointerDy == Sub(last.pointerPosition.y, before.handles[last.handle].y)

\* width + xDir * dx and height + yDir * dy
draggedWidth ==
    Add(before.groupBounds.width, Mul(Num(SCALE_COMPONENTS[last.handle].x), pointerDx))

draggedHeight ==
    Add(before.groupBounds.height, Mul(Num(SCALE_COMPONENTS[last.handle].y), pointerDy))

uprightScale == scaled /\ ~centeredScaling /\ before.groupBounds.rotation = 0

\* where drawHandles puts the handles for the bounds
handleAt(bounds, h) == drawHandles(bounds, handles, TRUE, TRUE, TRUE, 0, 0, skewRadius)[h]

\* the handle, drawn from the bounds before the call, is under the pointer along each
\* axis it drives once it is drawn from the bounds after the call
underPointer ==
    before.handles[last.handle] = handleAt(before.groupBounds, last.handle) =>
        /\ SCALE_COMPONENTS[last.handle].x # 0 =>
              handleAt(groupBounds, last.handle).x = last.pointerPosition.x
        /\ SCALE_COMPONENTS[last.handle].y # 0 =>
              handleAt(groupBounds, last.handle).y = last.pointerPosition.y

----------------------------------------------------------------------------
(* C7, C8 *)

skewed(handle) == last.op = "skewGroup" /\ last.handle = handle

\* the angle of the pointer of the last gesture about the center of the bounds
rawAngle == angleAbout(before.groupBounds, last.pointerPosition)

\* the first entry of the list within the tolerance of the angle
firstWithin(angle, snapTolerance, snaps) ==
    snaps[CHOOSE i \in within(angle, snapTolerance, snaps) :
              \A j \in within(angle, snapTolerance, snaps) : i <= j]

\* C7: skewGroup('skewHorizontal', p) sets _skewX to the angle of p about the center of
\* the bounds passed through snapAngle: whenever that angle is within the tolerance of
\* one of the skew snaps, _skewX is that snap value and not the raw angle; otherwise it
\* is the raw normalized angle.
C7_SkewXSnaps ==
    skewed("skewHorizontal") =>
        IF within(rawAngle, skewSnapTolerance, skewSnaps) # {}
        THEN _skewX = firstWithin(rawAngle, skewSnapTolerance, skewSnaps)
        ELSE _skewX = normalizedAngle(rawAngle)

\* C8: skewGroup('skewVertical', p) changes the rotation of the group bounds by
\* -(new _skewY - old _skewY), the new _skewY being the angle of p about the center
\* less 90 degrees, passed through snapAngle; skewGroup('skewHorizontal', p) leaves the
\* rotation of the group bounds as it was.
C8_VerticalSkewTurnsBounds ==
    /\ skewed("skewVertical") =>
          /\ _skewY = snapAngle(rawAngle - 90, skewSnapTolerance, skewSnaps)
          /\ groupBounds.rotation - before.groupBounds.rotation
                = -(_skewY - before._skewY)
    /\ skewed("skewHorizontal") => groupBounds.rotation = before.groupBounds.rotation

\* a vertical skew that snapped, changed _skewY and turned the bounds
C8_Witness ==
    /\ skewed("skewVertical")
    /\ _skewY # before._skewY
    /\ _skewY # rawAngle - 90
    /\ groupBounds.rotation # before.groupBounds.rotation

----------------------------------------------------------------------------
(* C9 *)

\* C9: a rotate gesture adds one and the same delta to _skewX and _skewY; a horizontal
\* skew leaves _skewY alone and a vertical skew leaves _skewX alone; translateGroup,
\* scaleGroup, commitGroup and draw change neither.
C9_SkewWritePaths ==
    /\ rotated =>
          /\ _skewX - before._skewX = _skewY - before._skewY
          /\ _skewX - before._skewX = groupBounds.rotation - before.groupBounds.rotation
    /\ skewed("skewHorizontal") => _skewY = before._skewY
    /\ skewed("skewVertical") => _skewX = before._skewX
    /\ last.op \in {"translateGroup", "scaleGroup", "commitGroup", "draw"} =>
          _skewX = before._skewX /\ _skewY = before._skewY

\* a rotate gesture that moved both skews, after a skew gesture had set them apart
C9_Witness ==
    /\ rotated
    /\ before._skewX # before._skewY
    /\ _skewX # before._skewX
    /\ _skewY # before._skewY

----------------------------------------------------------------------------
(* C10 *)

\* C10: for a list of at least two snaps and a tolerance other than zero, snapAngle
\* returns the first entry in list order within the tolerance of the normalized angle,
\* nearer entries later in the list notwithstanding, and the normalized angle, strictly
\* within a full turn of zero, when no entry is within the tolerance.
C10_FirstSnapInListOrder ==
    (last.op = "snapAngle" /\ Len(last.snaps) >= 2 /\ last.snapTolerance # 0) =>
        IF within(normalizedAngle(last.angle), last.snapTolerance, last.snaps) # {}
        THEN last.result
                = firstWithin(normalizedAngle(last.angle), last.snapTolerance, last.snaps)
        ELSE /\ last.result = normalizedAngle(last.angle)
             /\ last.result > -TWO_PI /\ last.result < TWO_PI

\* an angle beyond a full turn with two snaps within the tolerance, the later one
\* nearer: snapAngle returned the earlier one
C10_Witness ==
    /\ last.op = "snapAngle"
    /\ Abs(last.angle) > TWO_PI
    /\ \E i, j \in within(normalizedAngle(last.angle), last.snapTolerance, last.snaps) :
          /\ i < j
          /\ Abs(normalizedAngle(last.angle) - last.snaps[j])
                < Abs(normalizedAngle(last.angle) - last.snaps[i])
          /\ last.result = last.snaps[i]
    /\ Len(last.snaps) >= 2 /\ last.snapTolerance # 0

----------------------------------------------------------------------------
(* C11 *)

\* C11 as stated: snapAngle on a snap list with the single entry a, a tolerance other
\* than zero and an angle with |angle - a| <= tolerance returns exactly a.
C11_SingleSnapReturned ==
    (/\ last.op = "snapAngle"
     /\ Len(last.snaps) = 1
     /\ last.snapTolerance # 0
     /\ Abs(last.angle - last.snaps[1]) <= last.snapTolerance)
        => last.result = last.snaps[1]

----------------------------------------------------------------------------
(* C12 *)

snappedTwice == last.op = "snapAngleAgain"

\* the entries of the list are pairwise further apart than the tolerance
spacedSnaps(snapTolerance, snaps) ==
    \A i, j \in 1..Len(snaps) : i # j => Abs(snaps[i] - snaps[j]) > snapTolerance

\* the entries of the list lie strictly within a full turn of zero
snapsInsideTurn(snaps) == \A i \in 1..Len(snaps) : Abs(snaps[i]) < TWO_PI

\* C12 as stated: for every angle, tolerance and snap list, snapAngle applied to the
\* result of snapAngle returns that result.
C12_SnappingIdempotent == snappedTwice => last.result = last.once

\* C12 amended: for every angle, every tolerance and every snap list whose entries lie
\* strictly inside (-2*PI, 2*PI) and are pairwise further apart than the tolerance,
\* snapAngle applied to the result of snapAngle returns that result.
C12_SnappingIdempotentOnSpacedSnaps ==
    (/\ snappedTwice
     /\ spacedSnaps(last.snapTolerance, last.snaps)
     /\ snapsInsideTurn(last.snaps))
        => last.result = last.once

\* a snap value was returned by the first call and again by the second
C12_Witness ==
    /\ snappedTwice
    /\ spacedSnaps(last.snapTolerance, last.snaps)
    /\ snapsInsideTurn(last.snaps)
    /\ Len(last.snaps) >= 2
    /\ last.once # Rem(last.angle, TWO_PI)
    /\ last.result = last.once

----------------------------------------------------------------------------
(* C13 *)

\* the world rotation of a member, as decomposeTransform reads it off the world transform
ownRotation(displayObject) == decomposeRotation(displayObject.worldTransform)

loneMember == Len(group) = 1 /\ decomposable(group[1].worldTransform)

\* C13 as stated: whenever the group has exactly one member, the rotation of the group
\* bounds is that member's own world rotation (up to whole turns), in every state: after
\* construction, after each gesture and after each draw.
C13_LoneBoundsFollowMember ==
    loneMember => (groupBounds.rotation - ownRotation(group[1])) % TWO_PI = 0

\* C13 amended: whenever the group has exactly one member, the rotation of the group
\* bounds equals that member's own world rotation after each draw.
C13_LoneBoundsFollowMemberAfterDraw ==
    (last.op = "draw" /\ Len(group) = 1) => groupBounds.rotation = ownRotation(group[1])

\* a draw has turned the bounds of a lone member to the member's rotation
C13_Witness ==
    /\ last.op = "draw"
    /\ Len(group) = 1
    /\ groupBounds.rotation # 0
    /\ before.groupBounds.rotation # groupBounds.rotation
    /\ groupBounds.rotation = ownRotation(group[1])

----------------------------------------------------------------------------
(* C14 *)

\* C14 as stated: for an empty group the group bounds, as the constructor, a gesture's
\* updateGroupBounds and draw compute them, have width 0 and height 0 and the rotation
\* that was passed in.
C14_EmptyGroupZeroSize ==
    group = <<>> =>
        /\ groupBounds.width = Zero
        /\ groupBounds.height = Zero
        /\ groupBounds.rotation = before.groupBounds.rotation

----------------------------------------------------------------------------
(* C15 *)

\* the corners of every member, turned by -rotation about the point c
unrotatedAbout(grp, rotation, c) ==
    applyEach(translate(rotate(translate(identity, Neg(c.x), Neg(c.y)), -rotation), c.x, c.y),
              frameVertices(grp, 1), 1)

\* the bounds are exactly the min/max box of the points
tightBox(bounds, points) ==
    /\ minX(points, 1) = bounds.x
    /\ minY(points, 1) = bounds.y
    /\ maxX(points, 1) = Add(bounds.x, bounds.width)
    /\ maxY(points, 1) = Add(bounds.y, bounds.height)

\* the group bounds of this state come from calculateGroupOrientedBounds
groupVariant == Len(group) >= 1 /\ ~(last.op = "draw" /\ Len(group) = 1)

\* the operations that pass the rotation the bounds already have
keepsRotation ==
    \/ last.op \in {"translateGroup", "scaleGroup", "draw"}
    \/ last.op = "commitGroup" /\ ~(transientGroupTilt /\ Len(group) > 1)

\* C15: for a group of one or more members, calculateGroupOrientedBounds returns bounds
\* with the rotation R it was given, whose innerBounds is exactly the min/max box of the
\* 4*N member world corners un-rotated by -R (about the center of the bounds, which is
\* the frame innerBounds is kept in): every un-rotated corner lies inside and each side
\* passes through at least one.
C15_GroupBoundsTight ==
    groupVariant =>
        /\ tightBox(groupBounds,
                    unrotatedAbout(group, groupBounds.rotation, center(groupBounds)))
        /\ keepsRotation => groupBounds.rotation = before.groupBounds.rotation
        /\ (last.op = "commitGroup" /\ transientGroupTilt /\ Len(group) > 1)
              => groupBounds.rotation = 0

\* bounds of two members computed at a rotation other than zero, away from the origin
C15_Witness ==
    /\ Len(group) = 2
    /\ last.op \in {"rotateGroup", "translateGroup", "scaleGroup"}
    /\ groupBounds.rotation % TWO_PI # 0
    /\ tightBox(groupBounds,
                unrotatedAbout(group, groupBounds.rotation, center(groupBounds)))

----------------------------------------------------------------------------
(* C16 *)

\* the eight scale handles around the bounds
outerScaleHandles == listed(SCALE_HANDLES) \ {"middleCenter"}

\* the visibility of the rotator, of the outer scale handles and of the skew handles is
\* that of the three toggles
visibleByToggles ==
    /\ visible["rotator"] = _rotateEnabled
    /\ \A h \in outerScaleHandles : visible[h] = _scaleEnabled
    /\ \A h \in SKEW_HANDLES : visible[h] = _skewEnabled

\* C16 as stated: when an enabledHandles list is supplied, through the constructor option
\* or through the property, exactly the listed handles are visible, whatever is asked of
\* rotateEnabled, scaleEnabled and skewEnabled afterwards; setting enabledHandles back to
\* no list makes the visibility that of the three toggles again.
C16_EnabledHandlesOverride ==
    /\ requested.enabledHandles # undefined =>
          \A h \in HandleSet : visible[h] <=> h \in listed(requested.enabledHandles[1])
    /\ (/\ requested.call = "enabledHandles"
        /\ requested.enabledHandles = undefined
        /\ requested.hadList) => visibleByToggles

----------------------------------------------------------------------------
(* C17 *)

\* C17 as stated: in every state with no enabledHandles override, the three getters
\* return the values last asked for, and the rotator, the outer scale handles and the
\* skew handles are visible exactly when their toggle is on.
C17_TogglesFollowRequests ==
    (requested.enabledHandles = undefined /\ _enabledHandles = undefined) =>
        /\ _rotateEnabled = requested.rotateEnabled
        /\ _scaleEnabled = requested.scaleEnabled
        /\ _skewEnabled = requested.skewEnabled
        /\ visibleByToggles

----------------------------------------------------------------------------
(* C18 *)

\* the gesture handler of a handle
gestureOf(h) ==
    CASE h = "rotator" -> "rotateGroup"
      [] h \in SKEW_HANDLES -> "skewGroup"
      [] OTHER -> "scaleGroup"

\* C18 as stated: every pointer-move on a handle between its pointer-down and its
\* pointer-up invokes that handle's gesture handler exactly once with the pointer
\* position of the sample, the pointer-up that ends the session invokes commitGroup
\* exactly once, and a pointer-move outside a session invokes nothing.
C18_DragSession ==
    /\ (event.type = "pointermove" /\ event.inSession) =>
          event.invoked = <<Call(gestureOf(event.handle), event.handle, event.pointerPosition)>>
    /\ (event.type = "pointerup" /\ event.inSession) =>
          event.invoked = <<Call("commitGroup", "none", zeroPoint)>>
    /\ (event.type = "pointermove" /\ ~event.inSession) => event.invoked = <<>>

----------------------------------------------------------------------------
(* C19 *)

\* the gesture handlers a pointer-move sample on a handle is meant for
sampleOps == {"rotateGroup", "scaleGroup", "skewGroup"}

\* where drawHandles puts the handles for the bounds and the skews of a snapshot
placedFor(shot) ==
    drawHandles(shot.groupBounds, shot.handles, _rotateEnabled, _scaleEnabled, _skewEnabled,
                shot._skewX, shot._skewY, skewRadius)

\* C19 as stated: the handling of a pointer-move sample applies the matrix, recomputes
\* the group bounds and repositions the handles, so that a sample that follows another
\* sample (here: with a draw before the first of the two) reads handle positions derived
\* from the bounds the previous sample produced.
C19_NextSampleReadsFreshHandles ==
    (/\ last.op \in sampleOps
     /\ before.op \in sampleOps
     /\ before.prevOp = "draw") => before.handles = placedFor(before)

----------------------------------------------------------------------------
(* C20 *)

\* the rotator handle as the next draw places it lies on the ray from the center of the
\* bounds through the pointer position of the last sample
rotatorOnPointerRay ==
    ByValue(drawBounds(group, groupBounds), LAMBDA fresh :
        (angleAbout(fresh, drawHandles(fresh, handles, _rotateEnabled, _scaleEnabled,
                                       _skewEnabled, _skewX, _skewY, skewRadius)["rotator"])
            - angleAbout(fresh, last.pointerPosition)) % TWO_PI = 0)

\* one or two rotator samples have arrived since the last draw
samplesSinceDraw ==
    /\ rotated
    /\ \/ before.op = "draw"
       \/ before.op = "rotateGroup" /\ before.prevOp = "draw"

\* C20 as stated: with no snap values and a group of two or more members, however many
\* rotator samples arrive between two draws, after the last sample and one draw the
\* rotator handle lies on the ray from the center of the bounds through that sample.
C20_RotationIndependentOfSampling ==
    (samplesSinceDraw /\ rotationSnaps = <<>> /\ Len(group) >= 2) => rotatorOnPointerRay

----------------------------------------------------------------------------
(* C21 *)

\* C21 as stated: with centeredScaling on, for every active scale handle, after
\* scaleGroup and a recompute of the bounds the handle (drawn from the bounds before the
\* call, and drawn again from the bounds after it) is at the pointer position along each
\* axis the handle drives.
C21_CenteredHandleUnderPointer == (scaled /\ centeredScaling) => underPointer

----------------------------------------------------------------------------
(* C22 *)

\* where drawHandles puts handle h for the bounds and the skews: the corner or edge
\* midpoint for a scale handle, the padded top-edge midpoint for the rotator, the center
\* plus skewRadius along the skew angle for a skew handle
derivedPosition(bounds, old, skewX, skewY, radius, h) ==
    drawHandles(bounds, old, TRUE, TRUE, TRUE, skewX, skewY, radius)[h]

\* C22 as stated: after every draw(), each visible handle's position is the position
\* derived from the group bounds computed in that same draw, for every combination of
\* rotateEnabled, scaleEnabled, skewEnabled and enabledHandles.
C22_VisibleHandlesPlacedByDraw ==
    [][(draw /\ fromCode) =>
          \A h \in HandleSet :
              visible'[h] => handles'[h] = derivedPosition(groupBounds', handles', _skewX',
                                                           _skewY', skewRadius', h)]_vars

----------------------------------------------------------------------------
(* C23 *)

\* C23 as stated: whatever constructor options were given and whatever was assigned to
\* enabledHandles, rotateEnabled, scaleEnabled and skewEnabled, the middleCenter handle
\* is not visible.
C23_MiddleCenterNeverVisible == ~visible["middleCenter"]

----------------------------------------------------------------------------
(* C24 *)

\* the multiples of 1/8th of a revolution strictly inside a full turn either way
eighths == {45 * k : k \in -7..7}

\* snapAngle has been called with the default rotation snaps and the default tolerance
defaultSnapCall ==
    /\ last.op = "snapAngle"
    /\ last.snaps = DEFAULT_ROTATION_SNAPS
    /\ last.snapTolerance = DEFAULT_ROTATION_SNAP_TOLERANCE

\* C24 as stated: with the default rotation snaps and the default tolerance, every
\* candidate rotation whose normalized value is within the tolerance of a multiple of 45
\* degrees in (-360, 360), including 0, +-225, +-270 and +-315 degrees, is replaced by
\* exactly that multiple.
C24_SnapsEveryEighth ==
    defaultSnapCall =>
        \A m \in eighths :
            Abs(normalizedAngle(last.angle) - m) <= last.snapTolerance => last.result = m

----------------------------------------------------------------------------
(* C25 *)

\* the group moved by (dx, dy): every member's world transform translated, nothing else
movedBy(grp, dx, dy) ==
    [i \in 1..Len(grp) |->
        [grp[i] EXCEPT !.worldTransform = translate(grp[i].worldTransform, dx, dy)]]

\* a pointer-move sample of a drag session on the body
bodySample == drag.type = "pointermove" /\ drag.inSession

\* C25: in a drag on the body with translateEnabled, the first move after the
\* pointer-down applies no translation and each later move mi translates every member by
\* exactly mi - m(i-1), so that after it the members are where they were at the first
\* move, translated by mi - m1; pointer-moves with no pointer-down before them, after the
\* pointer-up, or with translateEnabled off apply no translation; and no pointer event on
\* the body changes groupBounds.rotation.
C25_BodyDragTranslates ==
    /\ (bodySample /\ translateEnabled /\ drag.previous = undefined) =>
          drag.after.group = drag.before.group
    /\ (bodySample /\ translateEnabled /\ drag.previous # undefined) =>
          /\ drag.after.group
                = movedBy(drag.before.group,
                          Sub(drag.pointerPosition.x, drag.previous[1].x),
                          Sub(drag.pointerPosition.y, drag.previous[1].y))
          /\ drag.after.group
                = movedBy(drag.origin,
                          Sub(drag.pointerPosition.x, drag.first[1].x),
                          Sub(drag.pointerPosition.y, drag.first[1].y))
    /\ (drag.type = "pointermove" /\ (~drag.inSession \/ ~translateEnabled)) =>
          drag.after.group = drag.before.group
    /\ drag.after.rotation = drag.before.rotation

\* the third sample of a drag on bounds turned by 45 degrees: the members have moved with
\* this sample, and by m3 - m1 since the first, which is neither m3 nor m3 - m2
C25_Witness ==
    /\ bodySample /\ translateEnabled
    /\ drag.previous # undefined
    /\ drag.first # drag.previous
    /\ drag.first[1] # zeroPoint
    /\ drag.pointerPosition # drag.first[1]
    /\ drag.pointerPosition # drag.previous[1]
    /\ drag.before.rotation = 45
    /\ drag.after.group # drag.before.group
    /\ drag.after.group # drag.origin
    /\ drag.after.group
          = movedBy(drag.origin, Sub(drag.pointerPosition.x, drag.first[1].x),
                    Sub(drag.pointerPosition.y, drag.first[1].y))

=============================================================================
